---- MODULE Spec2Model ----
(***************************************************************************)
(* Model of app.py, the Streamlit script "YouTube Transcript Keyword       *)
(* Analyzer & News Explorer".  Streamlit executes the script from top to   *)
(* bottom on every user interaction; st.session_state is the only state    *)
(* that survives a run.  Text is modelled as a sequence of one-character   *)
(* strings, so that replace / split / strip / lower act on characters as   *)
(* the Python string methods do.                                           *)
(*                                                                         *)
(*   Spec        the session: one action per user interaction, each one    *)
(*               a whole script run                                        *)
(*   SpecParse   the clean-up of the LLM response (lines 114-123), fed     *)
(*               with bounded raw responses                                *)
(*   SpecRender  the news result loop (lines 185-199), fed with bounded    *)
(*               provider result lists                                     *)
(***************************************************************************)
EXTENDS Integers, Sequences, FiniteSets, TLC

VARIABLES
    \* st.session_state
    transcript,      \* session_state["transcript_text"]: None or Some(text)
    keywords,        \* session_state["keywords"]: None or Some(list of texts)
    kw_src,          \* the transcript that was in the prompt (line 109) of the
                     \* call whose answer is stored in keywords; None if none
    \* widget state kept by Streamlit between runs
    input_option,    \* st.radio, line 28
    video_url,       \* st.text_input, line 34
    uploaded_file,   \* st.file_uploader, line 67: None or Some(file)
    \* what the last script run did
    key_present,     \* line 21: st.secrets holds the OpenAI key (the secrets
                     \* are the deployment's: the same in every run)
    ingest,          \* "none" | "transcribe" | "upload": ingestion performed
    loaded,          \* local transcript_text before line 87: None or Some(text)
    llm_calls,       \* calls of openai.ChatCompletion.create in the run
    msgs,            \* st.error / st.warning / st.info messages of the run
    form_shown,      \* the keyword multiselect form was rendered (line 133)
    news_calls,      \* provider queries (lines 144-148) made in the run
    news_header,     \* query shown by st.subheader (line 150), None if none
    uncaught,        \* an exception left the script
    llm_outcome,     \* what ChatCompletion.create did: "none" (not called),
                     \* "error", "malformed" or "ok"
    news_outcome,    \* what GoogleNews did: "none" (not called), "ctor_error",
                     \* "search_error", "result_error" or "ok"
    search_news,     \* line 135: the form was submitted in this run
    selected,        \* line 134: selected_keywords of the submission
    \* locals of the keyword clean-up, lines 114-122
    keywords_raw,    \* line 114
    cleaned,         \* line 117
    keywords_list,   \* line 119 (before the duplicates are removed)
    pstep,           \* position inside lines 114-123 (SpecParse)
    \* locals of the news block
    results,         \* line 146
    rendered         \* the cards written by line 199, in order

svars == <<transcript, keywords, kw_src>>
wvars == <<input_option, video_url, uploaded_file>>
ovars == <<key_present, ingest, loaded, llm_calls, msgs, form_shown,
           news_calls, news_header, uncaught, llm_outcome, news_outcome,
           search_news, selected>>
pvars == <<keywords_raw, cleaned, keywords_list, pstep>>
rvars == <<results, rendered>>
vars  == <<svars, wvars, ovars, pvars, rvars>>

-----------------------------------------------------------------------------
(* Bounds *)

\* longest raw LLM response of SpecParse, counted in pieces of RawPieces
MaxPieces == 4
\* longest provider result list of SpecRender
MaxResults == 2

-----------------------------------------------------------------------------
(* Optional values: Python's None / a key missing from a dict *)

None == <<>>
Some(x) == <<x>>
IsSome(o) == o /= <<>>
Val(o) == o[1]

-----------------------------------------------------------------------------
(* Python str methods on sequences of characters *)

Uppers == <<"A","B","C","D","E","F","G","H","I","J","K","L","M",
            "N","O","P","Q","R","S","T","U","V","W","X","Y","Z">>
Lowers == <<"a","b","c","d","e","f","g","h","i","j","k","l","m",
            "n","o","p","q","r","s","t","u","v","w","x","y","z">>

LowerChar(c) ==
    IF \E i \in 1..Len(Uppers) : Uppers[i] = c
    THEN Lowers[CHOOSE i \in 1..Len(Uppers) : Uppers[i] = c]
    ELSE c

\* str.lower()
RECURSIVE Lower(_)
Lower(s) == IF s = <<>> THEN <<>> ELSE <<LowerChar(Head(s))>> \o Lower(Tail(s))

\* the characters str.strip() removes
Whitespace == {" ", "\t", "\n", "\r"}

StartsWith(s, p) == Len(s) >= Len(p) /\ SubSeq(s, 1, Len(p)) = p
EndsWith(s, p) ==
    Len(s) >= Len(p) /\ SubSeq(s, Len(s) - Len(p) + 1, Len(s)) = p

\* str.replace(old, new): every non-overlapping occurrence, left to right
RECURSIVE Replace(_, _, _)
Replace(s, old, new) ==
    IF Len(s) < Len(old) \/ Len(old) = 0 THEN s
    ELSE IF StartsWith(s, old)
         THEN new \o Replace(SubSeq(s, Len(old) + 1, Len(s)), old, new)
         ELSE <<Head(s)>> \o Replace(Tail(s), old, new)

\* str.split(","): the pieces between commas, empty pieces included
RECURSIVE Split(_, _)
Split(s, sep) ==
    IF \E i \in 1..Len(s) : s[i] = sep
    THEN LET i == CHOOSE j \in 1..Len(s) :
                     s[j] = sep /\ \A k \in 1..(j - 1) : s[k] /= sep
         IN  <<SubSeq(s, 1, i - 1)>> \o Split(SubSeq(s, i + 1, Len(s)), sep)
    ELSE <<s>>

\* str.strip()
RECURSIVE LStrip(_)
LStrip(s) ==
    IF s /= <<>> /\ Head(s) \in Whitespace THEN LStrip(Tail(s)) ELSE s

RECURSIVE RStrip(_)
RStrip(s) ==
    IF s /= <<>> /\ s[Len(s)] \in Whitespace
    THEN RStrip(SubSeq(s, 1, Len(s) - 1)) ELSE s

Strip(s) == RStrip(LStrip(s))

\* sep.join(list)
RECURSIVE Join(_, _)
Join(list, sep) ==
    IF list = <<>> THEN <<>>
    ELSE IF Len(list) = 1 THEN list[1]
    ELSE list[1] \o sep \o Join(Tail(list), sep)

RECURSIVE Concat(_)
Concat(list) == IF list = <<>> THEN <<>> ELSE Head(list) \o Concat(Tail(list))

\* text literals
NL == <<"\n">>
Comma == <<",">>
Space == <<" ">>
CommaSpace == <<",", " ">>
LabelCap == <<"K","e","y","w","o","r","d","s",":">>
LabelLow == <<"k","e","y","w","o","r","d","s",":">>
LabelUp == <<"K","E","Y","W","O","R","D","S",":">>
LabelMixed == <<"K","e","y","W","o","r","d","s",":">>
DotPdf == <<".","p","d","f">>

-----------------------------------------------------------------------------
(* Lines 114-123: from the raw LLM answer to the stored keyword list *)

\* line 117
Clean(raw) == Replace(Replace(Replace(raw, NL, CommaSpace), LabelCap, <<>>),
                      LabelLow, <<>>)

\* line 119: [k.strip() for k in cleaned.split(",") if k.strip()]
RECURSIVE StripNonEmpty(_)
StripNonEmpty(parts) ==
    IF parts = <<>> THEN <<>>
    ELSE IF Strip(Head(parts)) /= <<>>
         THEN <<Strip(Head(parts))>> \o StripNonEmpty(Tail(parts))
         ELSE StripNonEmpty(Tail(parts))

SplitStrip(c) == StripNonEmpty(Split(c, ","))

\* lines 121-122: keep k unless k.lower() is in seen; seen.add(k.lower())
RECURSIVE DedupFrom(_, _)
DedupFrom(list, seen) ==
    IF list = <<>> THEN <<>>
    ELSE IF Lower(Head(list)) \in seen
         THEN DedupFrom(Tail(list), seen)
         ELSE <<Head(list)>>
              \o DedupFrom(Tail(list), seen \cup {Lower(Head(list))})

\* a dedup that compares the keywords as written
RECURSIVE DedupCaseSensitiveFrom(_, _)
DedupCaseSensitiveFrom(list, seen) ==
    IF list = <<>> THEN <<>>
    ELSE IF Head(list) \in seen
         THEN DedupCaseSensitiveFrom(Tail(list), seen)
         ELSE <<Head(list)>>
              \o DedupCaseSensitiveFrom(Tail(list), seen \cup {Head(list)})

DedupCaseSensitive(list) == DedupCaseSensitiveFrom(list, {})

Dedup(list) == DedupFrom(list, {})

\* lines 117-122 as one function
ParseKeywords(raw) == Dedup(SplitStrip(Clean(raw)))

-----------------------------------------------------------------------------
(* Lines 33-84: transcript ingestion *)

OptUrl == "YouTube Video URL"
OptUpload == "Upload Transcript File"

\* a byte that is not valid UTF-8; decode(errors="ignore") drops it
BadByte == "xFF"

\* bytes_data.decode("utf-8", errors="ignore"), line 79
RECURSIVE Decode(_)
Decode(bytes) ==
    IF bytes = <<>> THEN <<>>
    ELSE IF Head(bytes) = BadByte THEN Decode(Tail(bytes))
         ELSE <<Head(bytes)>> \o Decode(Tail(bytes))

\* filter(None, text_pages), line 75: drops None and ""
RECURSIVE FilterPages(_)
FilterPages(pages) ==
    IF pages = <<>> THEN <<>>
    ELSE IF IsSome(Head(pages)) /\ Val(Head(pages)) /= <<>>
         THEN <<Val(Head(pages))>> \o FilterPages(Tail(pages))
         ELSE FilterPages(Tail(pages))

\* lines 69-81: the text read from the uploaded file, and the error if any
ReadUpload(file) ==
    IF EndsWith(Lower(file.name), DotPdf)
    THEN IF file.corrupt
         THEN [text |-> None, msgs |-> {"read_error"}]
         ELSE [text |-> Some(Join(FilterPages(file.pages), NL)), msgs |-> {}]
    ELSE [text |-> Some(Decode(file.bytes)), msgs |-> {}]

\* lines 38-59: w is what pytube and the Whisper API do
Transcribe(w) ==
    CASE w.kind = "error"    -> [text |-> None, msgs |-> {"transcribe_error"}]
      [] w.kind = "no_audio" -> [text |-> None, msgs |-> {"no_audio"}]
      [] OTHER -> [text |-> Some(IF IsSome(w.data) THEN Val(w.data) ELSE <<>>),
                   msgs |-> {}]

\* lines 33-84: which ingestion ran, the local transcript_text, the messages
Ingest(opt, url, file, button, w) ==
    IF opt = OptUrl
    THEN IF url /= <<>> /\ button
         THEN [kind |-> "transcribe"] @@ Transcribe(w)
         ELSE [kind |-> "none", text |-> None, msgs |-> {}]
    ELSE IF IsSome(file)
         THEN [kind |-> "upload"] @@ ReadUpload(Val(file))
         ELSE [kind |-> "none", text |-> None, msgs |-> {}]

\* lines 62-63 and 83-84: "if transcript_text:" stores a non-empty text only
StoreTranscript(old, text) ==
    IF IsSome(text) /\ Val(text) /= <<>> THEN text ELSE old

-----------------------------------------------------------------------------
(* Lines 87-125: keyword extraction *)

\* extraction on every run that has a transcript
NeedExtractAlways(tr, kw) == IsSome(tr)

\* lines 87 and 95
NeedExtract(tr, kw) == IsSome(tr) /\ ~IsSome(kw)

\* lines 96-125: llm is what openai.ChatCompletion.create does
Extract(need, llm) ==
    IF ~need
    THEN [calls |-> 0, kw |-> None, msgs |-> {},
          raw |-> None, cleaned |-> None, list |-> None]
    ELSE IF llm.kind /= "ok"
    THEN [calls |-> 1, kw |-> None, msgs |-> {"extract_error"},
          raw |-> None, cleaned |-> None, list |-> None]
    ELSE [calls |-> 1, kw |-> Some(ParseKeywords(llm.content)), msgs |-> {},
          raw |-> Some(llm.content),
          cleaned |-> Some(Clean(llm.content)),
          list |-> Some(SplitStrip(Clean(llm.content)))]

-----------------------------------------------------------------------------
(* Lines 128-203: keyword selection and news search *)

Fields == {"title", "desc", "media", "date", "link"}

\* item.get(k, default)
Get(item, k, default) == IF IsSome(item[k]) THEN Val(item[k]) ELSE default

\* lines 186-198: the values interpolated into one news card
Card(item) ==
    [title       |-> Get(item, "title", "Untitled"),
     source      |-> Get(item, "media", "Unknown Source"),
     date        |-> Get(item, "date", ""),
     description |-> Get(item, "desc", ""),
     link        |-> Get(item, "link", "")]

\* lines 185-199
RECURSIVE RenderAll(_)
RenderAll(res) ==
    IF res = <<>> THEN <<>> ELSE <<Card(Head(res))>> \o RenderAll(Tail(res))

NoNewsBlock ==
    [calls |-> 0, msgs |-> {}, header |-> None, results |-> <<>>,
     rendered |-> <<>>, uncaught |-> FALSE]

\* the news block without its try/except
NewsBlockNoCatch(shown, submit, sel, out) ==
    IF ~(shown /\ submit) THEN NoNewsBlock
    ELSE IF sel = <<>>
    THEN [NoNewsBlock EXCEPT !.msgs = {"select_warning"}]
    ELSE IF out.kind /= "ok"
    THEN [NoNewsBlock EXCEPT !.calls = 1, !.uncaught = TRUE]
    ELSE [calls |-> 1,
          msgs |-> IF out.results = <<>> THEN {"no_news_info"} ELSE {},
          header |-> Some(Join(sel, Space)),
          results |-> out.results,
          rendered |-> RenderAll(out.results),
          uncaught |-> FALSE]

\* the news block with a second attempt after a failure
NewsBlockRetry(shown, submit, sel, out) ==
    IF ~(shown /\ submit) THEN NoNewsBlock
    ELSE IF sel = <<>>
    THEN [NoNewsBlock EXCEPT !.msgs = {"select_warning"}]
    ELSE IF out.kind /= "ok"
    THEN [NoNewsBlock EXCEPT !.calls = 2, !.msgs = {"news_error"}]
    ELSE [calls |-> 1,
          msgs |-> IF out.results = <<>> THEN {"no_news_info"} ELSE {},
          header |-> Some(Join(sel, Space)),
          results |-> out.results,
          rendered |-> RenderAll(out.results),
          uncaught |-> FALSE]

\* lines 138-203: out is what the GoogleNews calls of lines 144-148 do
NewsBlock(shown, submit, sel, out) ==
    IF ~(shown /\ submit) THEN NoNewsBlock
    ELSE IF sel = <<>>
    THEN [NoNewsBlock EXCEPT !.msgs = {"select_warning"}]
    ELSE IF out.kind /= "ok"
    THEN [NoNewsBlock EXCEPT !.calls = 1, !.msgs = {"news_error"}]
    ELSE [calls |-> 1,
          msgs |-> IF out.results = <<>> THEN {"no_news_info"} ELSE {},
          header |-> Some(Join(sel, Space)),
          results |-> out.results,
          rendered |-> RenderAll(out.results),
          uncaught |-> FALSE]

-----------------------------------------------------------------------------
(* What the user and the external services can supply *)

TextA == <<"a">>
TextB == <<"b">>
Url == <<"u">>

\* files the uploader accepts (type=["pdf", "txt"])
TxtFile(bytes) ==
    [name |-> <<"t", ".", "t", "x", "t">>, bytes |-> bytes,
     pages |-> <<>>, corrupt |-> FALSE]
PdfFile(pages, corrupt) ==
    [name |-> <<"t", ".", "P", "D", "F">>, bytes |-> <<>>,
     pages |-> pages, corrupt |-> corrupt]

Files ==
    { TxtFile(<<"a">>), TxtFile(<<"b", BadByte>>), TxtFile(<<>>),
      PdfFile(<<Some(TextA), None, Some(<<>>), Some(TextB)>>, FALSE),
      PdfFile(<<Some(<<>>)>>, FALSE),
      PdfFile(<<>>, TRUE) }

\* pytube / Whisper: an exception, no audio stream, or the response dict
\* (data = None: the dict has no "text" key)
WhisperOutcomes ==
    { [kind |-> "error", data |-> None], [kind |-> "no_audio", data |-> None] }
    \cup { [kind |-> "ok", data |-> d] :
             d \in {None, Some(<<>>), Some(TextA), Some(TextB)} }
NoWhisper == [kind |-> "none", data |-> None]

Ai == <<"a", "i">>
AiUp == <<"A", "I">>
Ml == <<"m", "l">>

\* ChatCompletion.create: an exception, a response without the content
\* (KeyError / IndexError at line 114), or a response with its content
LLMOutcomes ==
    { [kind |-> "error", content |-> <<>>],
      [kind |-> "malformed", content |-> <<>>] }
    \cup { [kind |-> "ok", content |-> c] :
             c \in { <<>>,
                     Concat(<<Comma, NL, Space>>),
                     Ai,
                     Concat(<<Ai, CommaSpace, AiUp, Comma, Ml>>),
                     Concat(<<LabelCap, Space, Ml, NL, Ai>>),
                     Concat(<<LabelUp, Space, Ai>>) } }
NoLLM == [kind |-> "none", content |-> <<>>]

\* line 105 with or without line 25 done: without an api key the call is
\* still made, and the client raises
LLMCall(key) ==
    IF key THEN LLMOutcomes ELSE {[kind |-> "error", content |-> <<>>]}

\* a provider result dict: each field is None (absent) or Some(value)
FieldValue(k) ==
    CASE k = "title" -> "T" [] k = "desc" -> "D" [] k = "media" -> "M"
      [] k = "date" -> "2024-01-01" [] OTHER -> "http://x"
Item(present) ==
    [k \in Fields |-> IF k \in present THEN Some(FieldValue(k)) ELSE None]
Items == { Item(present) : present \in SUBSET Fields }

\* GoogleNews: an exception in the constructor, in search() or in result(),
\* or the result list
NewsOutcomes ==
    { [kind |-> k, results |-> <<>>] :
        k \in {"ctor_error", "search_error", "result_error"} }
    \cup { [kind |-> "ok", results |-> r] :
             r \in { <<>>, <<Item(Fields)>>, <<Item({"title"}), Item({})>> } }
NoNews == [kind |-> "none", results |-> <<>>]

\* st.multiselect: the chosen options, in the order they were chosen
Selections(options) ==
    { [i \in 1..Len(ix) |-> options[ix[i]]] :
        ix \in { f \in UNION { [1..n -> 1..Len(options)] :
                                 n \in 0..Len(options) } :
                   \A i, j \in DOMAIN f : i /= j => f[i] /= f[j] } }

-----------------------------------------------------------------------------
(* One run of the script, lines 20-203 *)

\* (a value bound by \E over a one-element set is computed once)
Script(opt, url, file, button, submit, sel) ==
    \E key \in {key_present} :
    \E w \in (IF opt = OptUrl /\ url /= <<>> /\ button
              THEN WhisperOutcomes ELSE {NoWhisper}) :
    \E ing \in {Ingest(opt, url, file, button, w)} :
    \E tr1 \in {StoreTranscript(transcript, ing.text)} :
    \E need \in {NeedExtract(tr1, keywords)} :
    \E llm \in (IF need THEN LLMCall(key) ELSE {NoLLM}) :
    \E ex \in {Extract(need, llm)} :
    \E kw1 \in {IF IsSome(ex.kw) THEN ex.kw ELSE keywords} :
    \E shown \in {IsSome(tr1) /\ IsSome(kw1) /\ Val(kw1) /= <<>>} :
    \E news \in (IF shown /\ submit /\ sel /= <<>>
                 THEN NewsOutcomes ELSE {NoNews}) :
    \E nb \in {NewsBlock(shown, submit, sel, news)} :
        /\ transcript' = tr1
        /\ keywords' = kw1
        /\ kw_src' = IF IsSome(ex.kw) THEN tr1 ELSE kw_src
        /\ key_present' = key
        /\ ingest' = ing.kind
        /\ loaded' = ing.text
        /\ llm_calls' = ex.calls
        /\ msgs' = (IF key THEN {} ELSE {"key_error"})
                   \cup ing.msgs \cup ex.msgs \cup nb.msgs
        /\ form_shown' = shown
        /\ news_calls' = nb.calls
        /\ news_header' = nb.header
        /\ uncaught' = nb.uncaught
        /\ llm_outcome' = llm.kind
        /\ news_outcome' = news.kind
        /\ search_news' = (shown /\ submit)
        /\ selected' = (IF shown /\ submit THEN sel ELSE <<>>)
        /\ keywords_raw' = ex.raw
        /\ cleaned' = ex.cleaned
        /\ keywords_list' = ex.list
        /\ pstep' = pstep
        /\ results' = nb.results
        /\ rendered' = nb.rendered

-----------------------------------------------------------------------------
(* The user's interactions; each one triggers a run *)

\* the radio of line 28; the widget that is no longer drawn loses its value
SelectOption ==
    \E o \in {OptUrl, OptUpload} :
        /\ o /= input_option
        /\ input_option' = o
        /\ video_url' = <<>>
        /\ uploaded_file' = None
        /\ Script(o, <<>>, None, FALSE, FALSE, <<>>)

\* the text input of line 34
EnterUrl ==
    \E u \in {<<>>, Url} :
        /\ input_option = OptUrl
        /\ u /= video_url
        /\ video_url' = u
        /\ UNCHANGED <<input_option, uploaded_file>>
        /\ Script(OptUrl, u, None, FALSE, FALSE, <<>>)

\* the button of line 37
ClickTranscribe ==
    /\ input_option = OptUrl
    /\ video_url /= <<>>
    /\ UNCHANGED wvars
    /\ Script(OptUrl, video_url, None, TRUE, FALSE, <<>>)

\* the uploader of line 67
UploadFile ==
    \E f \in Files :
        /\ input_option = OptUpload
        /\ uploaded_file /= Some(f)
        /\ uploaded_file' = Some(f)
        /\ UNCHANGED <<input_option, video_url>>
        /\ Script(OptUpload, <<>>, Some(f), FALSE, FALSE, <<>>)

RemoveFile ==
    /\ input_option = OptUpload
    /\ IsSome(uploaded_file)
    /\ uploaded_file' = None
    /\ UNCHANGED <<input_option, video_url>>
    /\ Script(OptUpload, <<>>, None, FALSE, FALSE, <<>>)

\* the form of lines 133-135, submitted with a selection
SubmitSearch ==
    /\ form_shown
    /\ UNCHANGED wvars
    /\ \E sel \in Selections(Val(keywords)) :
         Script(input_option, video_url, uploaded_file, FALSE, TRUE, sel)

\* any other rerun (the expander, a browser reload of the widgets)
Rerun ==
    /\ UNCHANGED wvars
    /\ Script(input_option, video_url, uploaded_file, FALSE, FALSE, <<>>)

\* the first run of a session: nothing stored, the radio on its first option
Init ==
    /\ transcript = None /\ keywords = None /\ kw_src = None
    /\ input_option = OptUrl /\ video_url = <<>> /\ uploaded_file = None
    /\ key_present \in BOOLEAN
    /\ msgs = (IF key_present THEN {} ELSE {"key_error"})
    /\ ingest = "none" /\ loaded = None /\ llm_calls = 0
    /\ form_shown = FALSE /\ news_calls = 0 /\ news_header = None
    /\ uncaught = FALSE
    /\ llm_outcome = "none" /\ news_outcome = "none"
    /\ search_news = FALSE /\ selected = <<>>
    /\ keywords_raw = None /\ cleaned = None /\ keywords_list = None
    /\ pstep = "run"
    /\ results = <<>> /\ rendered = <<>>

Next ==
    \/ SelectOption
    \/ EnterUrl
    \/ ClickTranscribe
    \/ UploadFile
    \/ RemoveFile
    \/ SubmitSearch
    \/ Rerun

Spec == Init /\ [][Next]_vars

-----------------------------------------------------------------------------
(* SpecParse: lines 114-123 on bounded raw responses *)

RawPieces ==
    { LabelCap, LabelLow, LabelUp, LabelMixed, Ai, AiUp, Ml, Comma, NL, Space }

RawInputs ==
    { Concat(p) : p \in UNION { [1..n -> RawPieces] : n \in 0..MaxPieces } }

InitParse ==
    /\ transcript = Some(TextA) /\ keywords = None /\ kw_src = None
    /\ input_option = OptUrl /\ video_url = <<>> /\ uploaded_file = None
    /\ key_present = TRUE /\ msgs = {}
    /\ ingest = "none" /\ loaded = None /\ llm_calls = 1
    /\ form_shown = FALSE /\ news_calls = 0 /\ news_header = None
    /\ uncaught = FALSE
    /\ llm_outcome = "ok" /\ news_outcome = "none"
    /\ search_news = FALSE /\ selected = <<>>
    /\ keywords_raw \in { Some(r) : r \in RawInputs }
    /\ cleaned = None /\ keywords_list = None
    /\ pstep = "raw"
    /\ results = <<>> /\ rendered = <<>>

\* line 117
CleanStep ==
    /\ pstep = "raw"
    /\ cleaned' = Some(Clean(Val(keywords_raw)))
    /\ pstep' = "cleaned"
    /\ UNCHANGED <<svars, wvars, ovars, rvars, keywords_raw, keywords_list>>

\* line 119
SplitStep ==
    /\ pstep = "cleaned"
    /\ keywords_list' = Some(SplitStrip(Val(cleaned)))
    /\ pstep' = "split"
    /\ UNCHANGED <<svars, wvars, ovars, rvars, keywords_raw, cleaned>>

\* lines 121-123
DedupStore ==
    /\ pstep = "split"
    /\ keywords' = Some(Dedup(Val(keywords_list)))
    /\ kw_src' = transcript
    /\ pstep' = "stored"
    /\ UNCHANGED <<transcript, wvars, ovars, rvars, keywords_raw, cleaned,
                   keywords_list>>

NextParse == CleanStep \/ SplitStep \/ DedupStore

SpecParse == InitParse /\ [][NextParse]_vars

-----------------------------------------------------------------------------
(* SpecRender: lines 151-199 on bounded provider result lists *)

ResultLists == UNION { [1..n -> Items] : n \in 0..MaxResults }

InitRender ==
    /\ transcript = Some(TextA) /\ keywords = Some(<<Ai>>)
    /\ kw_src = Some(TextA)
    /\ input_option = OptUrl /\ video_url = <<>> /\ uploaded_file = None
    /\ key_present = TRUE /\ msgs = {}
    /\ ingest = "none" /\ loaded = None /\ llm_calls = 0
    /\ form_shown = TRUE /\ news_calls = 1 /\ news_header = Some(Ai)
    /\ uncaught = FALSE
    /\ llm_outcome = "none" /\ news_outcome = "ok"
    /\ search_news = TRUE /\ selected = <<Ai>>
    /\ keywords_raw = None /\ cleaned = None /\ keywords_list = None
    /\ pstep = "run"
    /\ results \in ResultLists /\ rendered = <<>>

\* lines 151-152
RenderNone ==
    /\ results = <<>>
    /\ msgs = {}
    /\ msgs' = {"no_news_info"}
    /\ UNCHANGED <<svars, wvars, pvars, rvars, key_present, ingest, loaded,
                   llm_calls, form_shown, news_calls, news_header, uncaught,
                   llm_outcome, news_outcome, search_news, selected>>

\* one iteration of the loop of lines 185-199
RenderItem ==
    /\ Len(rendered) < Len(results)
    /\ rendered' = Append(rendered, Card(results[Len(rendered) + 1]))
    /\ UNCHANGED <<svars, wvars, ovars, pvars, results>>

NextRender == RenderNone \/ RenderItem

SpecRender == InitRender /\ [][NextRender]_vars

-----------------------------------------------------------------------------
(* Properties *)

NonEmpty(o) == IsSome(o) /\ Val(o) /= <<>>
NewsErrors == {"ctor_error", "search_error", "result_error"}

\* C1: when a transcript and its keywords are stored and a run loads a
\* different non-empty transcript without an LLM error, the stored keyword
\* list after the run is the one extracted from the new transcript.
C1_NewTranscriptReplacesKeywords ==
    [][ ( /\ IsSome(transcript) /\ NonEmpty(keywords)
          /\ NonEmpty(loaded') /\ loaded' /= transcript
          /\ "extract_error" \notin msgs' /\ ~uncaught' )
        => ( /\ transcript' = loaded'
             /\ IsSome(keywords')
             /\ kw_src' = transcript' ) ]_vars

\* C2: in a run in which the OpenAI key is missing from the secrets, no
\* transcript is ingested, the LLM is not called and no news search is made.
C2_MissingKeyHaltsRun ==
    ~key_present => (ingest = "none" /\ llm_calls = 0 /\ news_calls = 0)

\* C3: when the LLM call fails, or its answer parses to no keyword, the run
\* exposes no keyword and reports a recoverable message; an empty result
\* never comes without one.
C3_EmptyExtractionIsSignalled ==
    ( llm_calls = 1
      /\ ( llm_outcome /= "ok"
           \/ (IsSome(keywords_list) /\ Val(keywords_list) = <<>>) ) )
    => ( ~NonEmpty(keywords) /\ "extract_error" \in msgs )

Labels == {LabelCap, LabelLow, LabelUp, LabelMixed}

\* newlines to commas, split on commas, trim, drop the empty pieces
ListOf(s) == StripNonEmpty(Split(Replace(s, NL, Comma), ","))

\* C4: a raw answer that starts with the label "Keywords:", in any letter
\* case, parses to the list of what follows the label; label text that is
\* not at the start of the answer is kept.
C4_LeadingLabelStrippedAnyCase ==
    IsSome(keywords_list) =>
        LET raw == Val(keywords_raw)
        IN  IF \E l \in Labels : StartsWith(raw, l)
            THEN Val(keywords_list)
                     = ListOf(SubSeq(raw, Len(LabelCap) + 1, Len(raw)))
            ELSE Val(keywords_list) = ListOf(raw)

\* the positions of the parsed list that hold the first keyword of their
\* case-insensitive group
FirstSeen(list) ==
    { i \in 1..Len(list) :
        \A j \in 1..(i - 1) : Lower(list[j]) /= Lower(list[i]) }

\* C5: the stored keyword list has no two entries that are equal after
\* lowercasing, every entry is non-empty and has no whitespace at its ends,
\* and the list is the parsed list restricted to the first occurrence of
\* each case-insensitive group, in the parsed order.
C5_DedupKeepsFirstSeen ==
    (IsSome(keywords) /\ IsSome(keywords_list)) =>
        LET kw == Val(keywords)
            pl == Val(keywords_list)
            first == FirstSeen(pl)
        IN  /\ \A i, j \in 1..Len(kw) :
                   i /= j => Lower(kw[i]) /= Lower(kw[j])
            /\ \A i \in 1..Len(kw) :
                   /\ kw[i] /= <<>>
                   /\ kw[i][1] \notin Whitespace
                   /\ kw[i][Len(kw[i])] \notin Whitespace
            /\ Len(kw) = Cardinality(first)
            /\ \A n \in 1..Len(kw) :
                   \E i \in first :
                       /\ Cardinality({j \in first : j <= i}) = n
                       /\ kw[n] = pl[i]

\* C5 witness: a parsed list with two case variants of one keyword was
\* stored, and only the first of them was kept
C5_Witness ==
    /\ pstep = "stored"
    /\ \E i, j \in 1..Len(Val(keywords_list)) :
           /\ i < j
           /\ Val(keywords_list)[i] /= Val(keywords_list)[j]
           /\ Lower(Val(keywords_list)[i]) = Lower(Val(keywords_list)[j])
    /\ Len(Val(keywords)) < Len(Val(keywords_list))

\* C6: when the provider raises in a search, the run completes, no article
\* is rendered, an error message is reported, the stored transcript and
\* keywords are as before the run and the form is there for another search.
C6_ProviderFailureContained ==
    [][ news_outcome' \in NewsErrors
        => ( /\ ~uncaught'
             /\ "news_error" \in msgs'
             /\ rendered' = <<>> /\ news_header' = None
             /\ transcript' = transcript /\ keywords' = keywords
             /\ form_shown' ) ]_vars

\* C6 witness: a search run in which the provider raised
C6_Witness ==
    /\ search_news /\ selected /= <<>>
    /\ news_outcome = "result_error"
    /\ "news_error" \in msgs
    /\ NonEmpty(keywords)

\* C7: a run that is given an empty transcript exposes an empty keyword
\* list, offers no keyword selection and reports no error about the input.
C7_EmptyTranscriptGivesNoKeywords ==
    (IsSome(loaded) /\ Val(loaded) = <<>>)
    => ( /\ ~NonEmpty(keywords)
         /\ ~form_shown
         /\ msgs \cap {"read_error", "transcribe_error"} = {} )

\* C8: card i shows result i; each field comes from the result's field
\* (title, desc, link, date, media) or, when absent, from its default, and
\* title and url are never empty.
C8_ResultNormalization ==
    /\ Len(rendered) <= Len(results)
    /\ \A i \in 1..Len(rendered) :
        LET it == results[i]
            c  == rendered[i]
        IN  /\ c.title = Get(it, "title", "Untitled")
            /\ c.description = Get(it, "desc", "")
            /\ c.source = Get(it, "media", "Unknown Source")
            /\ IsSome(it["date"]) => c.date = Val(it["date"])
            /\ IsSome(it["link"]) => c.link = Val(it["link"])
            /\ c.title /= ""
            /\ c.link /= ""

\* C9: a submission with a non-empty selection makes exactly one provider
\* query in its run, whatever the outcome; a submission with an empty
\* selection makes none and gives only the "select a keyword" warning; a
\* run without a submission makes none.
C9_SingleAttemptPerSubmission ==
    /\ (search_news /\ selected /= <<>>) => news_calls = 1
    /\ (search_news /\ selected = <<>>)
           => ( /\ news_calls = 0
                /\ "select_warning" \in msgs
                /\ msgs \cap {"news_error", "no_news_info"} = {}
                /\ news_header = None /\ rendered = <<>> )
    /\ ~search_news => (news_calls = 0 /\ "select_warning" \notin msgs)

\* C9 witness: a submitted search whose provider call failed, made once
C9_Witness ==
    /\ search_news /\ selected /= <<>>
    /\ news_outcome = "search_error"
    /\ news_calls = 1

====
